---- MODULE Spec2Model ----
(***************************************************************************)
(* Model of mcp-file-compaction: the Context Cache (state.ts) and the      *)
(* Lifecycle Controller (tools.ts) that decides which file is active,      *)
(* which files are cached as summaries and when a summary is stale.        *)
(*                                                                         *)
(* Paths are records [abs, segs]: an absolute flag and the list of path    *)
(* segments, so that different spellings of one file are different values. *)
(* File contents and summaries are sequences of one-character strings.     *)
(* The summary map and the file system are functions whose DOMAIN is the   *)
(* set of keys present (Map.has / file exists).                            *)
(* now is the wall clock, read by setSummary for                           *)
(* CachedSummary.lastAccessed; no decision of the program reads that field *)
(* and time stands still except in the specification of extraction.        *)
(* awaiting is the job queue of the tool calls suspended at                *)
(* `await summarizeFile(previousActive)`, in the order they will resume.   *)
(***************************************************************************)
EXTENDS Integers, Sequences, FiniteSets, TLC

VARIABLES activeFile, summaries, accessOrder, maxTrackedFiles, disk, hung, last,
          awaiting, now

vars == <<activeFile, summaries, accessOrder, maxTrackedFiles, disk, hung, last,
          awaiting, now>>

\* Largest configured maxTrackedFiles explored by the controller specification
\* (two supported files); the cache specification, with three files, explores
\* one more.
MaxTracked == 1
\* Longest file content explored.
MaxLen == 3
\* Most tool calls in flight at once in the specification of concurrent calls.
MaxInFlight == 2
\* Most enums, traits and structs in a Summary Model.
MaxItems == 1
\* Most top-level items in a Rust source file given to parseRust.
MaxDecls == 2
\* Latest time the wall clock reaches.
MaxClock == 1

\* null / undefined
None == [none |-> TRUE]

------------------------------------------------------------------------------
(* Paths *)

\* process.cwd(), also the default projectRoot
cwd == <<"p">>
projectRoot == cwd

AbsPath(segs) == [abs |-> TRUE, segs |-> segs]
RelPath(segs) == [abs |-> FALSE, segs |-> segs]

FileA == AbsPath(<<"p", "a.rs">>)
FileB == AbsPath(<<"p", "b.rs">>)
FileC == AbsPath(<<"p", "c.rs">>)
FileN == AbsPath(<<"p", "n.txt">>)
\* the same file as FileA, spelled /p/./a.rs and a.rs
FileADot == AbsPath(<<"p", ".", "a.rs">>)
FileARel == RelPath(<<"a.rs">>)

\* the project directory itself: a path that is a directory, not a file
ProjectDir == AbsPath(cwd)

\* files and spellings of the controller specification
SupportedFiles == {FileA, FileB}
Files == SupportedFiles \cup {FileN}
Spellings == Files \cup {FileADot}

\* path.normalize on the segment list: "." and "" vanish, ".." pops
RECURSIVE normalizeSegs(_, _)
normalizeSegs(segs, acc) ==
    IF segs = <<>> THEN acc
    ELSE LET s == Head(segs) IN
         IF s = "." \/ s = "" THEN normalizeSegs(Tail(segs), acc)
         ELSE IF s = ".."
              THEN normalizeSegs(Tail(segs),
                                 IF acc = <<>> THEN acc ELSE SubSeq(acc, 1, Len(acc) - 1))
              ELSE normalizeSegs(Tail(segs), Append(acc, s))

\* path.resolve(filePath): absolute and normalized, relative to cwd
resolve(filePath) ==
    IF filePath.abs THEN AbsPath(normalizeSegs(filePath.segs, <<>>))
    ELSE AbsPath(normalizeSegs(cwd \o filePath.segs, <<>>))

normalizePath(filePath) ==
    IF filePath.abs THEN AbsPath(normalizeSegs(filePath.segs, <<>>))
    ELSE resolve(filePath)

\* tools.ts: path.isAbsolute(filePath) ? filePath : path.resolve(filePath)
absolutePathOf(filePath) == IF filePath.abs THEN filePath ELSE resolve(filePath)

\* path.relative(projectRoot, absolute): the segments below the project root
getRelativePath(filePath) ==
    LET absolute == IF filePath.abs THEN filePath ELSE resolve(filePath)
        segs == normalizeSegs(absolute.segs, <<>>)
        n == Len(projectRoot)
    IN IF Len(segs) >= n /\ SubSeq(segs, 1, n) = projectRoot
       THEN SubSeq(segs, n + 1, Len(segs))
       ELSE <<"..">> \o segs

\* path.extname(...).toLowerCase() of the last segment
extname(filePath) ==
    LET segs == filePath.segs
        base == IF segs = <<>> THEN "" ELSE segs[Len(segs)]
    IN CASE base \in {"a.rs", "b.rs", "c.rs"} -> ".rs"
         [] base = "n.txt" -> ".txt"
         [] OTHER -> ""

SUPPORTED_EXTENSIONS == {".rs", ".py", ".ts", ".tsx", ".js", ".jsx", ".php", ".cs", ".gd"}

isSupported(filePath) == extname(filePath) \in SUPPORTED_EXTENSIONS

------------------------------------------------------------------------------
(* File system *)

\* the file the operating system opens for a path
fileOf(filePath) == normalizePath(filePath)

\* fs.readFileSync succeeds
canRead(d, filePath) == fileOf(filePath) \in DOMAIN d

readFileSync(d, filePath) == d[fileOf(filePath)]

\* fs.writeFileSync succeeds: writing to the path of a directory throws
canWrite(d, filePath) == fileOf(filePath) # ProjectDir

\* fs.writeFileSync
writeFileSync(d, filePath, content) ==
    [f \in DOMAIN d \cup {fileOf(filePath)} |->
        IF f = fileOf(filePath) THEN content ELSE d[f]]

------------------------------------------------------------------------------
(* Context Cache: state.ts *)

\* sha256 of the content: injective on the contents explored
hashContent(content) == [sha256 |-> content]

\* Buffer.byteLength(s, 'utf8') for one-byte characters
byteLength(s) == Len(s)

\* the cache as one value, threaded through the steps of an operation
CacheState == [activeFile |-> activeFile, summaries |-> summaries,
               accessOrder |-> accessOrder, hung |-> hung]

mapSet(m, k, v) == [q \in DOMAIN m \cup {k} |-> IF q = k THEN v ELSE m[q]]
mapDelete(m, k) == [q \in DOMAIN m \ {k} |-> m[q]]

\* updateAccessOrder without the filter that removes the path first
updateAccessOrder_appends(order, filePath) == Append(order, filePath)

updateAccessOrder(order, filePath) ==
    Append(SelectSeq(order, LAMBDA q : q # filePath), filePath)

\* evictIfNeeded without the test oldest !== this.activeFile
RECURSIVE evictIfNeeded_noExempt(_, _, _, _)
evictIfNeeded_noExempt(sums, order, active, max) ==
    IF Cardinality(DOMAIN sums) <= max
    THEN [summaries |-> sums, accessOrder |-> order, hung |-> FALSE]
    ELSE IF order = <<>>
         THEN [summaries |-> sums, accessOrder |-> order, hung |-> TRUE]
         ELSE evictIfNeeded_noExempt(mapDelete(sums, Head(order)), Tail(order), active, max)

\* evictIfNeeded with the loop condition size > max + 1
RECURSIVE evictIfNeeded_offByOne(_, _, _, _)
evictIfNeeded_offByOne(sums, order, active, max) ==
    IF Cardinality(DOMAIN sums) <= max + 1
    THEN [summaries |-> sums, accessOrder |-> order, hung |-> FALSE]
    ELSE IF order = <<>>
         THEN [summaries |-> sums, accessOrder |-> order, hung |-> TRUE]
         ELSE LET oldest == Head(order) IN
              evictIfNeeded_offByOne(IF oldest # active THEN mapDelete(sums, oldest) ELSE sums,
                                     Tail(order), active, max)

\* evictIfNeeded taking the newest path of the list (pop) instead of the
\* oldest (shift)
RECURSIVE evictIfNeeded_newestFirst(_, _, _, _)
evictIfNeeded_newestFirst(sums, order, active, max) ==
    IF Cardinality(DOMAIN sums) <= max
    THEN [summaries |-> sums, accessOrder |-> order, hung |-> FALSE]
    ELSE IF order = <<>>
         THEN [summaries |-> sums, accessOrder |-> order, hung |-> TRUE]
         ELSE LET newest == order[Len(order)] IN
              evictIfNeeded_newestFirst(IF newest # active THEN mapDelete(sums, newest)
                                        ELSE sums,
                                        SubSeq(order, 1, Len(order) - 1), active, max)

\* while (size > max) { oldest = shift(); if (oldest && oldest !== active) delete }
\* With an empty accessOrder shift() yields undefined and the loop never ends:
\* hung records that the loop does not terminate.
RECURSIVE evictIfNeeded(_, _, _, _)
evictIfNeeded(sums, order, active, max) ==
    IF Cardinality(DOMAIN sums) <= max
    THEN [summaries |-> sums, accessOrder |-> order, hung |-> FALSE]
    ELSE IF order = <<>>
         THEN [summaries |-> sums, accessOrder |-> order, hung |-> TRUE]
         ELSE LET oldest == Head(order) IN
              evictIfNeeded(IF oldest # active THEN mapDelete(sums, oldest) ELSE sums,
                            Tail(order), active, max)

getActiveFile(st) == st.activeFile

setActiveFile(st, filePath) ==
    [st EXCEPT !.activeFile = normalizePath(filePath),
               !.accessOrder = updateAccessOrder(st.accessOrder, normalizePath(filePath))]

clearActiveFile(st) == [st EXCEPT !.activeFile = None]

\* isActive comparing the path as given, without normalizePath
isActive_raw(st, filePath) == st.activeFile = filePath

isActive(st, filePath) == st.activeFile = normalizePath(filePath)

\* the entry, or None for undefined
getSummary(st, filePath) ==
    IF normalizePath(filePath) \in DOMAIN st.summaries
    THEN st.summaries[normalizePath(filePath)]
    ELSE None

\* setSummary that hashes the summary instead of the full content
setSummary_hashesSummary(st, filePath, summary, fullContent) ==
    LET normalizedPath == normalizePath(filePath)
        entry == [summary |-> summary,
                  contentHash |-> hashContent(summary),
                  fullSize |-> byteLength(fullContent),
                  summarySize |-> byteLength(summary),
                  lastAccessed |-> now,
                  relativePath |-> getRelativePath(filePath)]
        ev == evictIfNeeded(mapSet(st.summaries, normalizedPath, entry),
                            updateAccessOrder(st.accessOrder, normalizedPath),
                            st.activeFile, maxTrackedFiles)
    IN [activeFile |-> st.activeFile, summaries |-> ev.summaries,
        accessOrder |-> ev.accessOrder, hung |-> ev.hung]

\* setSummary that also makes the stored path the active file
setSummary_activates(st, filePath, summary, fullContent) ==
    LET normalizedPath == normalizePath(filePath)
        entry == [summary |-> summary,
                  contentHash |-> hashContent(fullContent),
                  fullSize |-> byteLength(fullContent),
                  summarySize |-> byteLength(summary),
                  lastAccessed |-> now,
                  relativePath |-> getRelativePath(filePath)]
        ev == evictIfNeeded(mapSet(st.summaries, normalizedPath, entry),
                            updateAccessOrder(st.accessOrder, normalizedPath),
                            normalizedPath, maxTrackedFiles)
    IN [activeFile |-> normalizedPath, summaries |-> ev.summaries,
        accessOrder |-> ev.accessOrder, hung |-> ev.hung]

setSummary(st, filePath, summary, fullContent) ==
    LET normalizedPath == normalizePath(filePath)
        entry == [summary |-> summary,
                  contentHash |-> hashContent(fullContent),
                  fullSize |-> byteLength(fullContent),
                  summarySize |-> byteLength(summary),
                  lastAccessed |-> now,
                  relativePath |-> getRelativePath(filePath)]
        ev == evictIfNeeded(mapSet(st.summaries, normalizedPath, entry),
                            updateAccessOrder(st.accessOrder, normalizedPath),
                            st.activeFile, maxTrackedFiles)
    IN [activeFile |-> st.activeFile, summaries |-> ev.summaries,
        accessOrder |-> ev.accessOrder, hung |-> ev.hung]

\* isStale whose catch branch answers false
isStale_failClosed(st, d, filePath) ==
    LET cached == getSummary(st, filePath) IN
    IF cached = None THEN TRUE
    ELSE IF canRead(d, filePath)
         THEN hashContent(readFileSync(d, filePath)) # cached.contentHash
         ELSE FALSE

\* isStale that trusts any entry it finds, without reading the file
isStale_trusting(st, d, filePath) == getSummary(st, filePath) = None

isStale(st, d, filePath) ==
    LET cached == getSummary(st, filePath) IN
    IF cached = None THEN TRUE
    ELSE IF canRead(d, filePath)
         THEN hashContent(readFileSync(d, filePath)) # cached.contentHash
         ELSE TRUE

\* forget without the accessOrder filter
forget_keepsOrder(st, filePath) ==
    LET normalizedPath == normalizePath(filePath) IN
    [st |-> [st EXCEPT !.summaries = mapDelete(st.summaries, normalizedPath),
                       !.activeFile = IF st.activeFile = normalizedPath THEN None
                                      ELSE st.activeFile],
     deleted |-> normalizedPath \in DOMAIN st.summaries]

\* the cache after forget, and the boolean it returns
forget(st, filePath) ==
    LET normalizedPath == normalizePath(filePath) IN
    [st |-> [st EXCEPT !.summaries = mapDelete(st.summaries, normalizedPath),
                       !.activeFile = IF st.activeFile = normalizedPath THEN None
                                      ELSE st.activeFile,
                       !.accessOrder = SelectSeq(st.accessOrder,
                                                 LAMBDA q : q # normalizedPath)],
     deleted |-> normalizedPath \in DOMAIN st.summaries]

------------------------------------------------------------------------------
(* Strings: the JavaScript String methods used by editFile *)

\* the 0-based positions at which sub starts in s
positions(s, sub) ==
    {i \in 0..(Len(s) - Len(sub)) : SubSeq(s, i + 1, i + Len(sub)) = sub}

\* String.prototype.includes
includes(s, sub) == positions(s, sub) # {}

\* String.prototype.indexOf of a string that occurs
indexOf(s, sub) == CHOOSE i \in positions(s, sub) : \A j \in positions(s, sub) : i <= j

\* s.split(sep).length: an empty separator splits into characters, any other
\* separator is searched left to right without overlap
RECURSIVE splitLength(_, _)
splitLength(s, sep) ==
    IF sep = <<>> THEN Len(s)
    ELSE IF ~includes(s, sep) THEN 1
         ELSE 1 + splitLength(SubSeq(s, indexOf(s, sep) + Len(sep) + 1, Len(s)), sep)

\* GetSubstitution for a string pattern (no capture groups): $$ is a dollar,
\* $& the match, $ backtick the text before it, $ apostrophe the text after
\* it. The characters backtick and apostrophe are written "bq" and "sq".
RECURSIVE getSubstitution(_, _, _, _)
getSubstitution(matched, before, after, replacement) ==
    IF replacement = <<>> THEN <<>>
    ELSE IF Head(replacement) = "$" /\ Len(replacement) >= 2
              /\ replacement[2] \in {"$", "&", "bq", "sq"}
         THEN LET c == replacement[2]
                  sub == CASE c = "$" -> <<"$">>
                           [] c = "&" -> matched
                           [] c = "bq" -> before
                           [] c = "sq" -> after
              IN sub \o getSubstitution(matched, before, after,
                                        SubSeq(replacement, 3, Len(replacement)))
         ELSE <<Head(replacement)>> \o
              getSubstitution(matched, before, after, Tail(replacement))

\* String.prototype.replace(pattern: string, replacement: string): first occurrence
replace(s, pattern, replacement) ==
    IF ~includes(s, pattern) THEN s
    ELSE LET i == indexOf(s, pattern)
             before == SubSeq(s, 1, i)
             after == SubSeq(s, i + Len(pattern) + 1, Len(s))
         IN before \o getSubstitution(pattern, before, after, replacement) \o after

------------------------------------------------------------------------------
(* Extractors: parsers/index.ts and the language parsers *)

\* In a source text "P" stands for a public declaration and "!" for input on
\* which the syntax-tree backend throws; every other character is text that
\* is not part of the public surface. "?" is text with a syntax error: the
\* backend returns a tree that holds it in an ERROR node, a node kind for
\* which the walk over the root's children has no case.
parserThrows(source) == \E i \in 1..Len(source) : source[i] = "!"

formatSummary(source) == SelectSeq(source, LAMBDA c : c = "P")

\* a language parser: try { ... success } catch { failure }
parseSource(source) ==
    IF parserThrows(source)
    THEN [success |-> FALSE, error |-> "parser error"]
    ELSE [success |-> TRUE, formattedSummary |-> formatSummary(source)]

parseFile(filePath, content) ==
    IF extname(filePath) \in SUPPORTED_EXTENSIONS THEN parseSource(content) ELSE None

parsed(result) == result # None /\ result.success

\* parseRust on the syntax tree: a file is the sequence of the named children
\* of the root node. A struct_item or enum_item has a name and a visibility,
\* an impl_item has the text of its type field, a trait field (present or
\* not) and the function_items of its declaration_list. Names and type texts
\* are sequences of tokens.

\* text.split('<')[0]
stripGenerics(text) ==
    IF \E i \in 1..Len(text) : text[i] = "<"
    THEN SubSeq(text, 1, (CHOOSE i \in 1..Len(text) :
                             /\ text[i] = "<"
                             /\ \A j \in 1..(i - 1) : text[j] # "<") - 1)
    ELSE text

\* structMap.get(typeName): the place in summary.structs of the struct last
\* set under that name, 0 for undefined
structMapGet(structs, typeName) ==
    IF \E k \in 1..Len(structs) : structs[k].name = typeName
    THEN CHOOSE k \in 1..Len(structs) :
            /\ structs[k].name = typeName
            /\ \A l \in (k + 1)..Len(structs) : structs[l].name # typeName
    ELSE 0

parseImplBlock(node, structs) ==
    IF node.trait THEN structs
    ELSE LET typeName == stripGenerics(node.type)
             k == structMapGet(structs, typeName)
         IN IF k = 0 THEN structs
            ELSE [structs EXCEPT ![k].methods =
                     @ \o SelectSeq(node.body, LAMBDA fn : fn.isPublic)]

\* second pass: process impl blocks
RECURSIVE secondPass(_, _)
secondPass(structs, nodes) ==
    IF nodes = <<>> THEN structs
    ELSE IF Head(nodes).kind = "impl_item"
         THEN secondPass(parseImplBlock(Head(nodes), structs), Tail(nodes))
         ELSE secondPass(structs, Tail(nodes))

\* the public items of one kind, in source order
publicItems(nodes, kind) ==
    SelectSeq(nodes, LAMBDA node : node.kind = kind /\ node.isPublic)

parseRust(nodes) ==
    LET structs == [k \in 1..Len(publicItems(nodes, "struct_item")) |->
                       [name |-> publicItems(nodes, "struct_item")[k].name,
                        methods |-> <<>>]]
        enums == [k \in 1..Len(publicItems(nodes, "enum_item")) |->
                     [name |-> publicItems(nodes, "enum_item")[k].name]]
    IN [success |-> TRUE,
        summary |-> [structs |-> secondPass(structs, nodes), enums |-> enums]]

------------------------------------------------------------------------------
(* Renderers: formatSummary of each language parser *)

\* A Summary Model (FileSummary) keeps, of every section, how many items it
\* holds; reexports are the kinds of its lines, structs are records of the
\* isPublic flags of their fields and the number of their methods. A rendered
\* text is the sequence of the sections its lines belong to: doc comments and
\* blank lines, which never move a line to another section, are left out.
RECURSIVE repeat(_, _)
repeat(line, n) == IF n = 0 THEN <<>> ELSE <<line>> \o repeat(line, n - 1)

RECURSIVE flatten(_)
flatten(seqs) == IF seqs = <<>> THEN <<>> ELSE Head(seqs) \o flatten(Tail(seqs))

\* for (const x of xs) lines.push(...) with one line per element
each(line, xs) == [i \in 1..Len(xs) |-> line]

\* a container header, its fields, then its methods
renderMembers(fields, methods) ==
    <<"structs">> \o each("fields", fields) \o repeat("methods", methods)

\* rust.js formatSummary with the traits loop moved before the structs loop
formatSummaryRust_traitsFirst(summary) ==
    (IF summary.purpose THEN <<"purpose">> ELSE <<>>)
    \o each("reexports", summary.reexports)
    \o repeat("constants", summary.constants)
    \o repeat("typeAliases", summary.typeAliases)
    \o repeat("traits", summary.traits)
    \o flatten([i \in 1..Len(summary.structs) |->
                  renderMembers(SelectSeq(summary.structs[i].fields, LAMBDA f : f),
                                summary.structs[i].methods)])
    \o repeat("enums", summary.enums)
    \o repeat("functions", summary.functions)

\* rust.js: purpose, re-exports, constants, type aliases, structs (public
\* fields only), enums, traits, functions
formatSummaryRust(summary) ==
    (IF summary.purpose THEN <<"purpose">> ELSE <<>>)
    \o each("reexports", summary.reexports)
    \o repeat("constants", summary.constants)
    \o repeat("typeAliases", summary.typeAliases)
    \o flatten([i \in 1..Len(summary.structs) |->
                  renderMembers(SelectSeq(summary.structs[i].fields, LAMBDA f : f),
                                summary.structs[i].methods)])
    \o repeat("enums", summary.enums)
    \o repeat("traits", summary.traits)
    \o repeat("functions", summary.functions)

\* php.js: purpose, namespace/use, constants, enums, interfaces, classes,
\* functions
formatSummaryPhp(summary) ==
    (IF summary.purpose THEN <<"purpose">> ELSE <<>>)
    \o each("reexports", summary.reexports)
    \o repeat("constants", summary.constants)
    \o repeat("enums", summary.enums)
    \o repeat("traits", summary.traits)
    \o flatten([i \in 1..Len(summary.structs) |->
                  renderMembers(summary.structs[i].fields, summary.structs[i].methods)])
    \o repeat("functions", summary.functions)

\* csharp.js: using directives, the first namespace, enums, delegates,
\* interfaces, classes
formatSummaryCSharp(summary) ==
    each("reexports", SelectSeq(summary.reexports, LAMBDA r : r = "using"))
    \o (IF \E i \in 1..Len(summary.reexports) : summary.reexports[i] = "namespace"
        THEN <<"reexports">> ELSE <<>>)
    \o repeat("enums", summary.enums)
    \o repeat("typeAliases", summary.typeAliases)
    \o repeat("traits", summary.traits)
    \o flatten([i \in 1..Len(summary.structs) |->
                  renderMembers(summary.structs[i].fields, summary.structs[i].methods)])

\* gdscript.js: constants, enums, classes
formatSummaryGDScript(summary) ==
    repeat("constants", summary.constants)
    \o repeat("enums", summary.enums)
    \o flatten([i \in 1..Len(summary.structs) |->
                  renderMembers(summary.structs[i].fields, summary.structs[i].methods)])

\* python.js: docstring, exports, constants, type aliases, classes, functions
formatSummaryPython(summary) ==
    (IF summary.purpose THEN <<"purpose">> ELSE <<>>)
    \o each("reexports", summary.reexports)
    \o repeat("constants", summary.constants)
    \o repeat("typeAliases", summary.typeAliases)
    \o flatten([i \in 1..Len(summary.structs) |->
                  renderMembers(summary.structs[i].fields, summary.structs[i].methods)])
    \o repeat("functions", summary.functions)

\* typescript.js: purpose, re-exports, constants, type aliases, enums,
\* interfaces, classes, functions
formatSummaryTypeScript(summary) ==
    (IF summary.purpose THEN <<"purpose">> ELSE <<>>)
    \o each("reexports", summary.reexports)
    \o repeat("constants", summary.constants)
    \o repeat("typeAliases", summary.typeAliases)
    \o repeat("enums", summary.enums)
    \o repeat("traits", summary.traits)
    \o flatten([i \in 1..Len(summary.structs) |->
                  renderMembers(summary.structs[i].fields, summary.structs[i].methods)])
    \o repeat("functions", summary.functions)

Languages == {"rust", "php", "csharp", "gdscript", "python", "typescript"}

render(language, summary) ==
    CASE language = "rust" -> formatSummaryRust(summary)
      [] language = "php" -> formatSummaryPhp(summary)
      [] language = "csharp" -> formatSummaryCSharp(summary)
      [] language = "gdscript" -> formatSummaryGDScript(summary)
      [] language = "python" -> formatSummaryPython(summary)
      [] language = "typescript" -> formatSummaryTypeScript(summary)

------------------------------------------------------------------------------
(* Lifecycle Controller: tools.ts *)

\* What an operation hands back: the header tag or message kind, the body
\* after the header, the parenthesised note, a count, and the status report.
Result(tag, body, note) ==
    [tag |-> tag, body |-> body, note |-> note, count |-> 0, report |-> None]

Full(content, note) == Result("FULL", content, note)
Summary(text) == Result("SUMMARY", text, "")
Failure(kind) == Result("ERROR", <<>>, kind)
\* the operation is still inside the eviction loop
NoReturn == Result("NORETURN", <<>>, "")

Outcome(st, d, res) == [st |-> st, disk |-> d, res |-> res]

\* summarizeFile whose success test is inverted, so that nothing is cached
summarizeFile_skips(st, d, filePath) ==
    IF ~canRead(d, filePath) THEN st
    ELSE LET content == readFileSync(d, filePath)
             result == parseFile(filePath, content)
         IN IF result # None /\ ~result.success
            THEN setSummary(st, filePath, <<>>, content)
            ELSE st

\* summarizeFile that drops the entry of a file it cannot read
summarizeFile_invalidates(st, d, filePath) ==
    IF ~canRead(d, filePath)
    THEN [st EXCEPT !.summaries = mapDelete(st.summaries, normalizePath(filePath))]
    ELSE LET content == readFileSync(d, filePath)
             result == parseFile(filePath, content)
         IN IF parsed(result)
            THEN setSummary(st, filePath, result.formattedSummary, content)
            ELSE st

\* Internal: summarize a file and cache the result; a read failure is ignored
summarizeFile(st, d, filePath) ==
    IF ~canRead(d, filePath) THEN st
    ELSE LET content == readFileSync(d, filePath)
             result == parseFile(filePath, content)
         IN IF parsed(result)
            THEN setSummary(st, filePath, result.formattedSummary, content)
            ELSE st

\* the step shared by readFile, editFile and writeFile
summarizePrevious(st, d, absolutePath) ==
    LET previousActive == getActiveFile(st) IN
    IF previousActive # None /\ previousActive # absolutePath
    THEN summarizeFile(st, d, previousActive)
    ELSE st

\* readFile that activates the file before looking at its extension
readFile_tracksAll(st, d, filePath) ==
    LET absolutePath == absolutePathOf(filePath) IN
    IF ~canRead(d, absolutePath) THEN Outcome(st, d, Failure("ENOENT"))
    ELSE LET content == readFileSync(d, absolutePath)
             st1 == summarizePrevious(st, d, absolutePath)
         IN IF st1.hung THEN Outcome(st1, d, NoReturn)
            ELSE Outcome(setActiveFile(st1, absolutePath), d,
                         Full(content, IF isSupported(absolutePath) THEN ""
                                       ELSE "unsupported"))

\* `await summarizeFile(previousActive)` is reached: the call is suspended
\* there once summarizeFile has run
awaitsSummarize(st, absolutePath) ==
    getActiveFile(st) # None /\ getActiveFile(st) # absolutePath

\* readFile from the statement after the await to its return
readFileResume(st, d, absolutePath, content) ==
    Outcome(setActiveFile(st, absolutePath), d, Full(content, ""))

readFile(st, d, filePath) ==
    LET absolutePath == absolutePathOf(filePath) IN
    IF ~canRead(d, absolutePath) THEN Outcome(st, d, Failure("ENOENT"))
    ELSE LET content == readFileSync(d, absolutePath) IN
         IF ~isSupported(absolutePath)
         THEN Outcome(st, d, Full(content, "unsupported"))
         ELSE LET st1 == summarizePrevious(st, d, absolutePath) IN
              IF st1.hung THEN Outcome(st1, d, NoReturn)
              ELSE readFileResume(st1, d, absolutePath, content)

\* peekFile that refreshes lastAccessed of the entry it serves
peekFile_touches(st, d, filePath) ==
    LET absolutePath == absolutePathOf(filePath) IN
    IF ~canRead(d, absolutePath) THEN Outcome(st, d, Failure("ENOENT"))
    ELSE LET content == readFileSync(d, absolutePath) IN
         IF ~isSupported(absolutePath)
         THEN Outcome(st, d, Full(content, "unsupported"))
         ELSE IF isActive(st, absolutePath)
         THEN Outcome(st, d, Full(content, "active"))
         ELSE LET cached == getSummary(st, absolutePath) IN
              IF cached # None /\ ~isStale(st, d, absolutePath)
              THEN Outcome([st EXCEPT !.summaries[normalizePath(absolutePath)].lastAccessed
                                          = now],
                           d, Summary(cached.summary))
              ELSE LET result == parseFile(absolutePath, content) IN
                   IF parsed(result)
                   THEN LET st1 == setSummary(st, absolutePath,
                                              result.formattedSummary, content)
                        IN IF st1.hung THEN Outcome(st1, d, NoReturn)
                           ELSE Outcome(st1, d, Summary(result.formattedSummary))
                   ELSE Outcome(st, d, Full(content, "parse error"))

peekFile(st, d, filePath) ==
    LET absolutePath == absolutePathOf(filePath) IN
    IF ~canRead(d, absolutePath) THEN Outcome(st, d, Failure("ENOENT"))
    ELSE LET content == readFileSync(d, absolutePath) IN
         IF ~isSupported(absolutePath)
         THEN Outcome(st, d, Full(content, "unsupported"))
         ELSE IF isActive(st, absolutePath)
         THEN Outcome(st, d, Full(content, "active"))
         ELSE LET cached == getSummary(st, absolutePath) IN
              IF cached # None /\ ~isStale(st, d, absolutePath)
              THEN Outcome(st, d, Summary(cached.summary))
              ELSE LET result == parseFile(absolutePath, content) IN
                   IF parsed(result)
                   THEN LET st1 == setSummary(st, absolutePath,
                                              result.formattedSummary, content)
                        IN IF st1.hung THEN Outcome(st1, d, NoReturn)
                           ELSE Outcome(st1, d, Summary(result.formattedSummary))
                   ELSE Outcome(st, d, Full(content, "parse error"))

\* the tail of editFile and writeFile without the eager setSummary
activateAndCache_lazy(st, d, absolutePath, content) ==
    IF ~isSupported(absolutePath)
    THEN Outcome(st, d, Result("OK", <<>>, "unsupported"))
    ELSE LET st1 == summarizePrevious(st, d, absolutePath) IN
         IF st1.hung THEN Outcome(st1, d, NoReturn)
         ELSE Outcome(setActiveFile(st1, absolutePath), d, Result("OK", <<>>, ""))

\* editFile and writeFile from the statement after the await to their return
activateAndCacheResume(st, d, absolutePath, content) ==
    LET st2 == setActiveFile(st, absolutePath)
        result == parseFile(absolutePath, content)
        st3 == IF parsed(result)
               THEN setSummary(st2, absolutePath, result.formattedSummary, content)
               ELSE st2
    IN IF st3.hung THEN Outcome(st3, d, NoReturn)
       ELSE Outcome(st3, d, Result("OK", <<>>, ""))

\* the tail of editFile and writeFile once the file has been written
activateAndCache(st, d, absolutePath, content) ==
    IF ~isSupported(absolutePath)
    THEN Outcome(st, d, Result("OK", <<>>, "unsupported"))
    ELSE LET st1 == summarizePrevious(st, d, absolutePath) IN
         IF st1.hung THEN Outcome(st1, d, NoReturn)
         ELSE activateAndCacheResume(st1, d, absolutePath, content)

\* editFile that switches the active file before it looks for the old string
editFile_switchesFirst(st, d, filePath, oldString, newString) ==
    LET absolutePath == absolutePathOf(filePath) IN
    IF ~canRead(d, absolutePath) THEN Outcome(st, d, Failure("ENOENT"))
    ELSE LET content == readFileSync(d, absolutePath)
             occurrences == splitLength(content, oldString) - 1
             st1 == IF isSupported(absolutePath)
                    THEN setActiveFile(summarizePrevious(st, d, absolutePath),
                                       absolutePath)
                    ELSE st
         IN IF ~includes(content, oldString)
            THEN Outcome(st1, d, Failure("not found"))
            ELSE IF occurrences > 1
            THEN Outcome(st1, d, [Failure("ambiguous") EXCEPT !.count = occurrences])
            ELSE LET newContent == replace(content, oldString, newString)
                 IN activateAndCache(st, writeFileSync(d, absolutePath, newContent),
                                     absolutePath, newContent)

editFile(st, d, filePath, oldString, newString) ==
    LET absolutePath == absolutePathOf(filePath) IN
    IF ~canRead(d, absolutePath) THEN Outcome(st, d, Failure("ENOENT"))
    ELSE LET content == readFileSync(d, absolutePath)
             occurrences == splitLength(content, oldString) - 1
         IN IF ~includes(content, oldString)
            THEN Outcome(st, d, Failure("not found"))
            ELSE IF occurrences > 1
            THEN Outcome(st, d, [Failure("ambiguous") EXCEPT !.count = occurrences])
            ELSE LET newContent == replace(content, oldString, newString)
                 IN activateAndCache(st, writeFileSync(d, absolutePath, newContent),
                                     absolutePath, newContent)

writeFile(st, d, filePath, content) ==
    LET absolutePath == absolutePathOf(filePath)
    IN IF ~canWrite(d, absolutePath) THEN Outcome(st, d, Failure("EISDIR"))
       ELSE activateAndCache(st, writeFileSync(d, absolutePath, content),
                             absolutePath, content)

forgetFile(st, d, filePath) ==
    LET absolutePath == absolutePathOf(filePath)
        f == forget(st, absolutePath)
    IN Outcome(f.st, d, Result(IF f.deleted THEN "REMOVED" ELSE "NOT_TRACKED", <<>>, ""))

RECURSIVE sumOver(_, _, _)
sumOver(m, keys, field) ==
    IF keys = {} THEN 0
    ELSE LET k == CHOOSE k \in keys : TRUE
         IN m[k][field] + sumOver(m, keys \ {k}, field)

\* ContextState.getStatus: the rows and the aggregate sizes
getStatus(st) ==
    [activeFile |-> st.activeFile,
     summaries |-> {[path |-> q,
                     relativePath |-> st.summaries[q].relativePath,
                     fullSize |-> st.summaries[q].fullSize,
                     summarySize |-> st.summaries[q].summarySize,
                     savings |-> st.summaries[q].fullSize - st.summaries[q].summarySize]
                    : q \in DOMAIN st.summaries},
     totalFullSize |-> sumOver(st.summaries, DOMAIN st.summaries, "fullSize"),
     totalSummarySize |-> sumOver(st.summaries, DOMAIN st.summaries, "summarySize"),
     totalSavings |-> sumOver(st.summaries, DOMAIN st.summaries, "fullSize")
                      - sumOver(st.summaries, DOMAIN st.summaries, "summarySize")]

\* fileStatus: the active line is read inside try/catch, the totals are not
fileStatus(st, d) ==
    LET status == getStatus(st)
        activeLine ==
            IF status.activeFile = None THEN [kind |-> "none", size |-> 0]
            ELSE IF canRead(d, status.activeFile)
                 THEN [kind |-> "full",
                       size |-> byteLength(readFileSync(d, status.activeFile))]
                 ELSE [kind |-> "file not found", size |-> 0]
    IN IF status.summaries # {} /\ status.activeFile # None
          /\ ~canRead(d, status.activeFile)
       THEN Outcome(st, d, Failure("ENOENT"))
       ELSE LET activeSize == IF status.activeFile # None
                              THEN byteLength(readFileSync(d, status.activeFile))
                              ELSE 0
                totals == IF status.summaries # {}
                          THEN [totalContext |-> activeSize + status.totalSummarySize,
                                totalWithoutCompaction |-> activeSize + status.totalFullSize,
                                savings |-> status.totalSavings]
                          ELSE None
            IN Outcome(st, d,
                       [Result("STATUS", <<>>, "") EXCEPT
                           !.report = [active |-> activeLine,
                                       rows |-> status.summaries,
                                       totals |-> totals]])

------------------------------------------------------------------------------
(* Inputs explored *)

PublicAndPrivate == <<"P", "h">>
TwoPublic == <<"P", "P">>
Unparsable == <<"!">>

\* file contents of the controller specification
Contents == {PublicAndPrivate, TwoPublic, Unparsable}

\* old_string / new_string pairs of the controller specification
EditPairs == {<<<<"h">>, <<"P">>>>, <<TwoPublic, PublicAndPrivate>>,
              <<<<"P">>, <<"P">>>>}

\* path / content pairs of write_file in the controller specification; the
\* unsupported file, which no extractor ever sees, is not written unparsable
WriteInputs == ((Spellings \X Contents) \ {<<FileN, Unparsable>>})
               \cup {<<ProjectDir, TwoPublic>>}

RECURSIVE stringsUpTo(_, _)
stringsUpTo(chars, n) ==
    IF n = 0 THEN {<<>>}
    ELSE LET shorter == stringsUpTo(chars, n - 1)
         IN shorter \cup {Append(w, c) : w \in shorter, c \in chars}

\* contents, (non-empty) old strings and new strings of the edit specification
EditContents == stringsUpTo({"h", "$"}, MaxLen)
OldStrings == stringsUpTo({"h", "$"}, 2) \ {<<>>}
NewStrings == {<<>>, <<"h">>, <<"$">>, <<"$", "$">>, <<"$", "&">>, <<"$", "bq">>,
               <<"$", "sq">>, <<"h", "$">>, <<"$", "h">>}

\* file contents of the extraction specification
ExtractSources == {TwoPublic, <<"P", "?">>, Unparsable}

\* (summary, fullContent) arguments of direct setSummary calls
CacheInputs == {<<<<"P">>, PublicAndPrivate>>, <<TwoPublic, TwoPublic>>}
CacheFiles == {FileA, FileB, FileC}
CachePaths == CacheFiles \cup {FileADot, FileARel}

EmptyMap == [q \in {} |-> None]

\* Summary Models of the rendering specification
RECURSIVE seqsUpTo(_, _)
seqsUpTo(S, n) ==
    IF n = 0 THEN {<<>>}
    ELSE LET shorter == seqsUpTo(S, n - 1)
         IN shorter \cup {Append(w, x) : w \in shorter, x \in S}

StructSummaries ==
    [fields : {<<>>, <<TRUE>>, <<FALSE, TRUE>>}, methods : 0..1]

SummaryModels ==
    [purpose : BOOLEAN,
     reexports : {<<>>, <<"namespace", "using">>},
     constants : 0..1,
     typeAliases : 0..1,
     enums : 0..MaxItems,
     traits : 0..MaxItems,
     structs : seqsUpTo(StructSummaries, MaxItems),
     functions : 0..1]

\* top-level items of the Rust files of the linkage specification: a struct
\* S and an enum E, public or not, and impl blocks for S, S<T> and E
RustTypeItems ==
    [kind : {"struct_item"}, name : {<<"S">>}, isPublic : BOOLEAN]
    \cup [kind : {"enum_item"}, name : {<<"E">>}, isPublic : BOOLEAN]

RustImplItems ==
    [kind : {"impl_item"}, isPublic : {FALSE},
     type : {<<"S">>, <<"S", "<", "T", ">">>, <<"E">>},
     trait : BOOLEAN,
     body : {<<[name |-> "m", isPublic |-> TRUE]>>,
             <<[name |-> "m", isPublic |-> TRUE], [name |-> "n", isPublic |-> FALSE]>>}]

\* files of up to MaxDecls items that declare each type name at most once
RustFiles ==
    {nodes \in seqsUpTo(RustTypeItems \cup RustImplItems, MaxDecls) :
        \A i, j \in 1..Len(nodes) :
           (i # j /\ nodes[i].kind # "impl_item" /\ nodes[j].kind # "impl_item")
           => nodes[i].name # nodes[j].name}

------------------------------------------------------------------------------
(* Actions *)

Apply(op, filePath, args, o) ==
    /\ activeFile' = o.st.activeFile
    /\ summaries' = o.st.summaries
    /\ accessOrder' = o.st.accessOrder
    /\ hung' = o.st.hung
    /\ disk' = o.disk
    /\ last' = [op |-> op, path |-> filePath, args |-> args, res |-> o.res]
    /\ UNCHANGED <<maxTrackedFiles, awaiting, now>>

\* case 'read_file' of the tool call handler
ReadFile(filePath) ==
    /\ ~hung
    /\ Apply("read", filePath, <<>>, readFile(CacheState, disk, filePath))

\* case 'peek_file'
PeekFile(filePath) ==
    /\ ~hung
    /\ Apply("peek", filePath, <<>>, peekFile(CacheState, disk, filePath))

\* case 'edit_file'; contents longer than MaxLen are not explored
EditFile(filePath, oldString, newString) ==
    /\ ~hung
    /\ LET o == editFile(CacheState, disk, filePath, oldString, newString)
       IN /\ \A f \in DOMAIN o.disk : Len(o.disk[f]) <= MaxLen
          /\ Apply("edit", filePath, <<oldString, newString>>, o)

\* case 'write_file'
WriteFile(filePath, content) ==
    /\ ~hung
    /\ Apply("write", filePath, <<content>>,
             writeFile(CacheState, disk, filePath, content))

\* case 'forget_file'
ForgetFile(filePath) ==
    /\ ~hung
    /\ Apply("forget", filePath, <<>>, forgetFile(CacheState, disk, filePath))

\* case 'file_status'
FileStatus ==
    /\ ~hung
    /\ Apply("status", None, <<>>, fileStatus(CacheState, disk))

\* another program changes or removes a file
ExternalWrite(file, content) ==
    /\ ~hung
    /\ disk' = writeFileSync(disk, file, content)
    /\ last' = [op |-> "external", path |-> None, args |-> <<>>, res |-> None]
    /\ UNCHANGED <<activeFile, summaries, accessOrder, maxTrackedFiles, hung, awaiting, now>>

ExternalDelete(file) ==
    /\ ~hung
    /\ file \in DOMAIN disk
    /\ disk' = mapDelete(disk, file)
    /\ last' = [op |-> "external", path |-> None, args |-> <<>>, res |-> None]
    /\ UNCHANGED <<activeFile, summaries, accessOrder, maxTrackedFiles, hung, awaiting, now>>

\* direct calls of the ContextState methods
ApplyCache(op, filePath, args, st, res) ==
    /\ activeFile' = st.activeFile
    /\ summaries' = st.summaries
    /\ accessOrder' = st.accessOrder
    /\ hung' = st.hung
    /\ last' = [op |-> op, path |-> filePath, args |-> args, res |-> res]
    /\ UNCHANGED <<maxTrackedFiles, disk, awaiting, now>>

SetSummary(filePath, summary, fullContent) ==
    /\ ~hung
    /\ LET st == setSummary(CacheState, filePath, summary, fullContent)
       IN ApplyCache("setSummary", filePath, <<summary, fullContent>>, st,
                     IF st.hung THEN NoReturn ELSE Result("OK", <<>>, ""))

SetActiveFile(filePath) ==
    /\ ~hung
    /\ ApplyCache("setActiveFile", filePath, <<>>, setActiveFile(CacheState, filePath),
                  Result("OK", <<>>, ""))

ClearActiveFile ==
    /\ ~hung
    /\ ApplyCache("clearActiveFile", None, <<>>, clearActiveFile(CacheState),
                  Result("OK", <<>>, ""))

Forget(filePath) ==
    /\ ~hung
    /\ LET f == forget(CacheState, filePath)
       IN ApplyCache("forget", filePath, <<>>, f.st,
                     Result(IF f.deleted THEN "TRUE" ELSE "FALSE", <<>>, ""))

\* Tool calls as the jobs they run in. A call runs from its start to its
\* first await in one job. readFile, editFile and writeFile await
\* summarizeFile(previousActive) when another file is active: summarizeFile
\* has run by then, and the rest of the call is queued behind the jobs
\* already waiting, among them the start of any call that has arrived.
Suspend(op, filePath, args, st1, d, absolutePath, content) ==
    /\ activeFile' = st1.activeFile
    /\ summaries' = st1.summaries
    /\ accessOrder' = st1.accessOrder
    /\ hung' = st1.hung
    /\ disk' = d
    /\ awaiting' = IF st1.hung THEN awaiting
                   ELSE Append(awaiting, [op |-> op, path |-> filePath, args |-> args,
                                          absolutePath |-> absolutePath,
                                          content |-> content,
                                          previousActive |-> activeFile])
    /\ last' = [op |-> op, path |-> filePath, args |-> args,
                res |-> IF st1.hung THEN NoReturn ELSE Result("AWAIT", <<>>, "")]
    /\ UNCHANGED <<maxTrackedFiles, now>>

CallRead(filePath) ==
    /\ ~hung
    /\ Len(awaiting) < MaxInFlight
    /\ LET absolutePath == absolutePathOf(filePath) IN
       IF /\ canRead(disk, absolutePath)
          /\ isSupported(absolutePath)
          /\ awaitsSummarize(CacheState, absolutePath)
       THEN Suspend("read", filePath, <<>>,
                    summarizeFile(CacheState, disk, getActiveFile(CacheState)),
                    disk, absolutePath, readFileSync(disk, absolutePath))
       ELSE Apply("read", filePath, <<>>, readFile(CacheState, disk, filePath))

CallEdit(filePath, oldString, newString) ==
    /\ ~hung
    /\ Len(awaiting) < MaxInFlight
    /\ LET absolutePath == absolutePathOf(filePath)
           o == editFile(CacheState, disk, filePath, oldString, newString)
       IN /\ \A f \in DOMAIN o.disk : Len(o.disk[f]) <= MaxLen
          /\ IF /\ o.res.tag # "ERROR"
                /\ isSupported(absolutePath)
                /\ awaitsSummarize(CacheState, absolutePath)
             THEN Suspend("edit", filePath, <<oldString, newString>>,
                          summarizeFile(CacheState, o.disk, getActiveFile(CacheState)),
                          o.disk, absolutePath, readFileSync(o.disk, absolutePath))
             ELSE Apply("edit", filePath, <<oldString, newString>>, o)

CallWrite(filePath, content) ==
    /\ ~hung
    /\ Len(awaiting) < MaxInFlight
    /\ LET absolutePath == absolutePathOf(filePath)
           written == writeFileSync(disk, absolutePath, content)
       IN IF isSupported(absolutePath) /\ awaitsSummarize(CacheState, absolutePath)
          THEN Suspend("write", filePath, <<content>>,
                       summarizeFile(CacheState, written, getActiveFile(CacheState)),
                       written, absolutePath, content)
          ELSE Apply("write", filePath, <<content>>,
                     writeFile(CacheState, disk, filePath, content))

\* the job at the head of the queue: the call continues after its await
Resume ==
    /\ ~hung
    /\ awaiting # <<>>
    /\ LET c == Head(awaiting)
           o == IF c.op = "read"
                THEN readFileResume(CacheState, disk, c.absolutePath, c.content)
                ELSE activateAndCacheResume(CacheState, disk, c.absolutePath, c.content)
       IN /\ activeFile' = o.st.activeFile
          /\ summaries' = o.st.summaries
          /\ accessOrder' = o.st.accessOrder
          /\ hung' = o.st.hung
          /\ disk' = o.disk
          /\ last' = [op |-> c.op, path |-> c.path, args |-> c.args, res |-> o.res]
          /\ awaiting' = Tail(awaiting)
          /\ UNCHANGED <<maxTrackedFiles, now>>

\* a renderer applied to the Summary Model at hand
Render(language) ==
    /\ last.op \in {"summary", "render"}
    /\ last' = [op |-> "render", path |-> None, args |-> <<language, last.args[2]>>,
                res |-> Result("RENDERED", render(language, last.args[2]), "")]
    /\ UNCHANGED <<activeFile, summaries, accessOrder, maxTrackedFiles, disk, hung,
                   awaiting, now>>

\* the Rust extractor applied to the file at hand
ParseRust ==
    /\ last.op = "source"
    /\ last' = [op |-> "parseRust", path |-> None, args |-> last.args,
                res |-> parseRust(last.args[1])]
    /\ UNCHANGED <<activeFile, summaries, accessOrder, maxTrackedFiles, disk, hung,
                   awaiting, now>>

\* time passes
Tick ==
    /\ ~hung
    /\ now < MaxClock
    /\ now' = now + 1
    /\ last' = [op |-> "tick", path |-> None, args |-> <<>>, res |-> None]
    /\ UNCHANGED <<activeFile, summaries, accessOrder, maxTrackedFiles, disk, hung,
                   awaiting>>

\* a direct call of ContextState.isStale: it answers and assigns nothing
IsStale(filePath) ==
    /\ ~hung
    /\ ApplyCache("isStale", filePath, <<>>, CacheState,
                  Result(IF isStale(CacheState, disk, filePath) THEN "TRUE" ELSE "FALSE",
                         <<>>, ""))

------------------------------------------------------------------------------
(* Specifications *)

InitCache ==
    /\ activeFile = None
    /\ summaries = EmptyMap
    /\ accessOrder = <<>>
    /\ hung = FALSE
    /\ last = [op |-> "init", path |-> None, args |-> <<>>, res |-> None]
    /\ awaiting = <<>>
    /\ now = 0

\* the controller: a fresh cache, every file present
Init ==
    /\ InitCache
    /\ maxTrackedFiles \in 0..MaxTracked
    /\ disk = [f \in Files |-> PublicAndPrivate]

Next ==
    \/ \E filePath \in Spellings : ReadFile(filePath)
    \/ \E filePath \in Spellings : PeekFile(filePath)
    \/ \E filePath \in Spellings, pair \in EditPairs :
          EditFile(filePath, pair[1], pair[2])
    \/ \E input \in WriteInputs : WriteFile(input[1], input[2])
    \/ \E filePath \in Spellings : ForgetFile(filePath)
    \/ FileStatus
    \/ \E file \in SupportedFiles, content \in Contents : ExternalWrite(file, content)
    \/ \E file \in SupportedFiles : ExternalDelete(file)

Spec == Init /\ [][Next]_vars

\* the cache alone, driven by arbitrary method calls
NextCache ==
    \/ \E filePath \in CachePaths, input \in CacheInputs :
          SetSummary(filePath, input[1], input[2])
    \/ \E filePath \in CachePaths : SetActiveFile(filePath)
    \/ ClearActiveFile
    \/ \E filePath \in CachePaths : Forget(filePath)

InitCacheOnly ==
    /\ InitCache
    /\ maxTrackedFiles \in 0..(MaxTracked + 1)
    /\ disk = [f \in Files |-> PublicAndPrivate]

SpecCache == InitCacheOnly /\ [][NextCache]_vars

\* edit_file on arbitrary short contents
InitEdit ==
    /\ InitCache
    /\ maxTrackedFiles = MaxTracked + 1
    /\ \E c \in EditContents : disk = [f \in {FileA, FileB} |-> IF f = FileA THEN c ELSE TwoPublic]

NextEdit ==
    \/ \E filePath \in {FileA, FileARel}, oldString \in OldStrings, newString \in NewStrings :
          EditFile(filePath, oldString, newString)
    \/ \E filePath \in {FileA, FileB} : ReadFile(filePath)

SpecEdit == InitEdit /\ [][NextEdit]_vars

\* the cache and the files it describes: method calls interleaved with
\* changes and removals of the files by other programs
StaleFiles == {FileA, FileB}
StalePaths == StaleFiles \cup {FileADot, FileARel}

NextStale ==
    \/ \E filePath \in StalePaths, input \in CacheInputs :
          SetSummary(filePath, input[1], input[2])
    \/ \E filePath \in StaleFiles : SetActiveFile(filePath)
    \/ \E filePath \in StalePaths : IsStale(filePath)
    \/ \E file \in StaleFiles, content \in {PublicAndPrivate, TwoPublic} :
          ExternalWrite(file, content)
    \/ \E file \in StaleFiles : ExternalDelete(file)

SpecStale == InitCacheOnly /\ [][NextStale]_vars

\* tool calls that arrive while earlier calls are suspended at their await
InitAsync ==
    /\ InitCache
    /\ maxTrackedFiles = MaxTracked + 1
    /\ disk = [f \in CacheFiles |-> PublicAndPrivate]

NextAsync ==
    \/ \E filePath \in CacheFiles : CallRead(filePath)
    \/ CallEdit(FileA, <<"h">>, <<"P">>)
    \/ CallWrite(FileB, TwoPublic)
    \/ \E filePath \in CacheFiles : PeekFile(filePath)
    \/ Resume

SpecAsync == InitAsync /\ [][NextAsync]_vars

\* the renderers, applied to every Summary Model
InitRender ==
    /\ activeFile = None
    /\ summaries = EmptyMap
    /\ accessOrder = <<>>
    /\ hung = FALSE
    /\ awaiting = <<>>
    /\ now = 0
    /\ maxTrackedFiles = MaxTracked
    /\ disk = [f \in Files |-> PublicAndPrivate]
    /\ \E summary \in SummaryModels :
          last = [op |-> "summary", path |-> None, args |-> <<"none", summary>>,
                  res |-> None]

NextRender == \E language \in Languages : Render(language)

SpecRender == InitRender /\ [][NextRender]_vars

\* files whose content other programs rewrite, with and without syntax
\* errors, between reads and peeks, while time passes
InitExtract ==
    /\ InitCache
    /\ maxTrackedFiles = MaxTracked + 1
    /\ disk = [f \in SupportedFiles |-> PublicAndPrivate]

NextExtract ==
    \/ \E file \in SupportedFiles, content \in ExtractSources :
          ExternalWrite(file, content)
    \/ \E filePath \in SupportedFiles : PeekFile(filePath)
    \/ \E filePath \in SupportedFiles : ReadFile(filePath)
    \/ Tick

SpecExtract == InitExtract /\ [][NextExtract]_vars

\* the Rust extractor, applied to every file
InitRust ==
    /\ activeFile = None
    /\ summaries = EmptyMap
    /\ accessOrder = <<>>
    /\ hung = FALSE
    /\ awaiting = <<>>
    /\ now = 0
    /\ maxTrackedFiles = MaxTracked
    /\ disk = [f \in Files |-> PublicAndPrivate]
    /\ \E nodes \in RustFiles :
          last = [op |-> "source", path |-> None, args |-> <<nodes>>, res |-> None]

NextRust == ParseRust

SpecRust == InitRust /\ [][NextRust]_vars

------------------------------------------------------------------------------
(* Properties *)

inOrder(order, p) == \E i \in 1..Len(order) : order[i] = p

positionIn(order, p) == CHOOSE i \in 1..Len(order) : order[i] = p

\* the number of places at which old occurs in content
occurrenceCount(content, old) == Cardinality(positions(content, old))

\* C1: a setSummary call, for any path, never removes the cache entry of the
\* active file: if the active path has an entry when the eviction loop
\* starts, it has one after the call.
EvictionKeepsActive ==
    [][\A filePath \in CachePaths, input \in CacheInputs :
          (/\ SetSummary(filePath, input[1], input[2])
           /\ activeFile # None
           /\ activeFile \in DOMAIN summaries \cup {normalizePath(filePath)})
          => activeFile \in DOMAIN summaries']_vars

\* the active file was the oldest in the recency list, was popped and kept
EvictionSkippedActive ==
    /\ last.op = "setSummary"
    /\ ~hung
    /\ activeFile \in DOMAIN summaries
    /\ ~inOrder(accessOrder, activeFile)
    /\ normalizePath(last.path) # activeFile

\* C2: whenever no setSummary call is still running, the cache holds at most
\* maxTrackedFiles entries, the entry of the active file included.
CacheSizeBounded ==
    ~hung => Cardinality(DOMAIN summaries) <= maxTrackedFiles

\* a full cache, one of whose entries belongs to the active file
FullCacheWithActiveEntry ==
    /\ last.op = "setSummary"
    /\ ~hung
    /\ maxTrackedFiles >= 1
    /\ Cardinality(DOMAIN summaries) = maxTrackedFiles
    /\ activeFile \in DOMAIN summaries
    /\ normalizePath(last.path) \notin DOMAIN summaries

\* C3: peek leaves the active pointer as it was, for every path and outcome.
PeekNeverSwitches ==
    [][last'.op = "peek" => activeFile' = activeFile]_vars

\* a peek at a file other than the active one that cached a new summary
PeekedOtherFile ==
    /\ last.op = "peek"
    /\ last.res.tag = "SUMMARY"
    /\ activeFile # None
    /\ normalizePath(last.path) # activeFile
    /\ normalizePath(last.path) \in DOMAIN summaries

\* C4: read(B) of a supported file while another file A is active, readable
\* and extractable: once the call has returned, A has an entry holding the
\* hash of A's content on disk, B is active, and B's entry was neither
\* created nor overwritten.
SwitchSummarizesPrevious ==
    [][(/\ last'.op = "read"
        /\ isSupported(last'.path)
        /\ canRead(disk, last'.path)
        /\ activeFile # None
        /\ activeFile # normalizePath(last'.path)
        /\ canRead(disk, activeFile)
        /\ parsed(parseFile(activeFile, readFileSync(disk, activeFile)))
        /\ ~hung')
       => LET A == activeFile
              B == normalizePath(last'.path)
          IN /\ activeFile' = B
             /\ A \in DOMAIN summaries'
             /\ summaries'[A].contentHash = hashContent(readFileSync(disk', A))
             /\ B \in DOMAIN summaries'
                   => (B \in DOMAIN summaries /\ summaries'[B] = summaries[B])]_vars

\* after read(B): B active and not cached, A cached and fresh
SwitchedFromAToB ==
    /\ last.op = "read"
    /\ last.res.tag = "FULL"
    /\ activeFile = FileB
    /\ normalizePath(last.path) = FileB
    /\ FileB \notin DOMAIN summaries
    /\ FileA \in DOMAIN summaries
    /\ ~isStale(CacheState, disk, FileA)

\* C5: after forget(p) the active pointer is not p (none if p was active,
\* otherwise unchanged), p has no entry and is not in the recency list; the
\* entries and the relative recency of all other paths are unchanged.
ForgetClearsTracking ==
    [][\A filePath \in CachePaths :
          Forget(filePath) =>
            LET p == normalizePath(filePath) IN
            /\ activeFile' # p
            /\ activeFile' = IF activeFile = p THEN None ELSE activeFile
            /\ getSummary(CacheState', filePath) = None
            /\ ~inOrder(accessOrder', p)
            /\ DOMAIN summaries' = DOMAIN summaries \ {p}
            /\ \A q \in DOMAIN summaries' : summaries'[q] = summaries[q]
            /\ \A q \in CacheFiles :
                  q # p => (inOrder(accessOrder', q) <=> inOrder(accessOrder, q))
            /\ \A q, r \in CacheFiles :
                  (q # p /\ r # p /\ inOrder(accessOrder, q) /\ inOrder(accessOrder, r))
                  => ((positionIn(accessOrder', q) < positionIn(accessOrder', r))
                      <=> (positionIn(accessOrder, q) < positionIn(accessOrder, r)))]_vars

\* the active, cached file was forgotten while other files stay tracked
ForgotActiveFile ==
    /\ last.op = "forget"
    /\ last.res.tag = "TRUE"
    /\ activeFile = None
    /\ ~inOrder(accessOrder, normalizePath(last.path))
    /\ Len(accessOrder) >= 2
    /\ DOMAIN summaries # {}

\* C6: forget answers "removed from tracking" exactly when the path had a
\* cache entry or was the active file.
ForgetReportsTracked ==
    [][last'.op = "forget" =>
          ((last'.res.tag = "REMOVED")
           <=> (\/ normalizePath(last'.path) \in DOMAIN summaries
                \/ activeFile = normalizePath(last'.path)))]_vars

\* C7: an edit whose old string occurs nowhere fails with the not-found
\* error, one whose old string occurs more than once fails with the ambiguity
\* error carrying the number of occurrences, and neither changes the file.
EditRejectionSafe ==
    [][(last'.op = "edit" /\ canRead(disk, last'.path)) =>
          LET n == occurrenceCount(readFileSync(disk, last'.path), last'.args[1]) IN
          /\ n = 0 => (last'.res.note = "not found" /\ disk' = disk)
          /\ n > 1 => (/\ last'.res.note = "ambiguous"
                       /\ last'.res.count = n
                       /\ disk' = disk)]_vars

\* C8: an edit whose old string occurs exactly once succeeds, and the new
\* content is the text before the occurrence, the new string character for
\* character, and the text after the occurrence.
EditSuccessExact ==
    [][(/\ last'.op = "edit"
        /\ canRead(disk, last'.path)
        /\ occurrenceCount(readFileSync(disk, last'.path), last'.args[1]) = 1) =>
          LET content == readFileSync(disk, last'.path)
              old == last'.args[1]
              i == indexOf(content, old)
          IN /\ last'.res.tag = "OK"
             /\ readFileSync(disk', last'.path)
                    = SubSeq(content, 1, i) \o last'.args[2]
                      \o SubSeq(content, i + Len(old) + 1, Len(content))]_vars

\* C9: read, peek, edit and write on a path whose extension has no extractor
\* leave the active pointer, the summary map and the recency list unchanged,
\* and read and peek return the full content tagged FULL.
UnsupportedNeverTracked ==
    [][(/\ last'.op \in {"read", "peek", "edit", "write"}
        /\ extname(last'.path) \notin SUPPORTED_EXTENSIONS) =>
          /\ UNCHANGED <<activeFile, summaries, accessOrder>>
          /\ (last'.op \in {"read", "peek"} /\ canRead(disk, last'.path))
                => /\ last'.res.tag = "FULL"
                   /\ last'.res.body = readFileSync(disk, last'.path)]_vars

\* an unsupported file was read while a supported file is active and uncached
ReadUnsupportedWhileActive ==
    /\ last.op = "read"
    /\ last.path = FileN
    /\ last.res.tag = "FULL"
    /\ activeFile = FileA
    /\ FileA \notin DOMAIN summaries
    /\ accessOrder = <<FileA>>

\* C10: peek on the active file returns the file's content on disk tagged
\* FULL whether or not an entry exists or is stale, and leaves the cache
\* as it was.
PeekActiveBypassesCache ==
    [][(/\ last'.op = "peek"
        /\ activeFile # None
        /\ normalizePath(last'.path) = activeFile
        /\ canRead(disk, last'.path))
       => /\ last'.res.tag = "FULL"
          /\ last'.res.body = readFileSync(disk, last'.path)
          /\ UNCHANGED <<activeFile, summaries, accessOrder, disk>>]_vars

\* the active file was peeked under another spelling while its entry is stale
PeekedActiveWithStaleEntry ==
    /\ last.op = "peek"
    /\ last.path = FileADot
    /\ last.res.tag = "FULL"
    /\ activeFile = FileA
    /\ FileA \in DOMAIN summaries
    /\ isStale(CacheState, disk, FileA)

\* C11: whenever peek returns a result tagged SUMMARY, the summary returned
\* is the one extracted from the content the file has on disk at that moment,
\* whatever operations and external changes came before.
PeekServesCurrentSummary ==
    [][(last'.op = "peek" /\ last'.res.tag = "SUMMARY")
       => /\ canRead(disk, last'.path)
          /\ last'.res.body = formatSummary(readFileSync(disk, last'.path))
          /\ disk' = disk]_vars

\* a peek at a non-active file answered with the summary of the content that
\* an external change put on disk
PeekedAfterExternalChange ==
    /\ last.op = "peek"
    /\ last.res.tag = "SUMMARY"
    /\ normalizePath(last.path) = FileA
    /\ activeFile = FileB
    /\ canRead(disk, FileA)
    /\ readFileSync(disk, FileA) = TwoPublic
    /\ last.res.body = TwoPublic
    /\ FileA \in DOMAIN summaries
    /\ ~isStale(CacheState, disk, FileA)

\* C12: isStale answers true when the path has no entry, true when the file
\* cannot be read, and otherwise true exactly when the hash of the content on
\* disk differs from the hash stored in the entry; the call changes nothing.
IsStaleAnswer ==
    [][last'.op = "isStale" =>
          LET p == normalizePath(last'.path)
              expected ==
                  IF p \notin DOMAIN summaries THEN TRUE
                  ELSE IF fileOf(last'.path) \notin DOMAIN disk THEN TRUE
                  ELSE hashContent(disk[fileOf(last'.path)]) # summaries[p].contentHash
          IN /\ last'.res.tag = (IF expected THEN "TRUE" ELSE "FALSE")
             /\ UNCHANGED <<activeFile, summaries, accessOrder, maxTrackedFiles,
                            disk, hung, awaiting>>]_vars

\* isStale answered true for an entry whose file has been removed
AskedStaleOfRemovedFile ==
    /\ last.op = "isStale"
    /\ last.res.tag = "TRUE"
    /\ normalizePath(last.path) \in DOMAIN summaries
    /\ ~canRead(disk, last.path)

\* C13: when another program changes or removes the file of a fresh entry,
\* isStale of that path becomes true; and once setSummary(path, _, bytes),
\* called for a path that has an entry or is active with the bytes the file
\* now holds, has returned, isStale of that path is false, whatever the cache
\* held and whatever maxTrackedFiles is.
StalenessRoundTrip ==
    [][/\ last'.op = "external" =>
             \A f \in StaleFiles :
                (/\ f \in DOMAIN summaries
                 /\ ~isStale(CacheState, disk, f)
                 /\ (~canRead(disk', f) \/ readFileSync(disk', f) # readFileSync(disk, f)))
                => isStale(CacheState', disk', f)
       /\ (/\ last'.op = "setSummary"
           /\ \/ normalizePath(last'.path) \in DOMAIN summaries
              \/ activeFile = normalizePath(last'.path)
           /\ canRead(disk, last'.path)
           /\ last'.args[2] = readFileSync(disk, last'.path)
           /\ ~hung')
          => ~isStale(CacheState', disk', last'.path)]_vars

\* setSummary stored the bytes an external change had put on disk, for a
\* non-active path, while the cache was full
RefreshedStaleEntry ==
    /\ last.op = "setSummary"
    /\ ~hung
    /\ normalizePath(last.path) = FileB
    /\ activeFile = FileA
    /\ canRead(disk, FileB)
    /\ readFileSync(disk, FileB) = TwoPublic
    /\ last.args[2] = TwoPublic
    /\ ~isStale(CacheState, disk, FileB)
    /\ Cardinality(DOMAIN summaries) = maxTrackedFiles

\* C14: after a successful edit or write of a supported file the path is the
\* active file, and if the new content can be extracted the cache holds an
\* entry for the path with the summary and the hash of the content just
\* written, so that isStale of the path is false.
EditWriteWarmsCache ==
    [][(/\ last'.op \in {"edit", "write"}
        /\ last'.res.tag = "OK"
        /\ isSupported(last'.path))
       => LET p == normalizePath(last'.path)
              content == readFileSync(disk', last'.path)
          IN /\ activeFile' = p
             /\ parsed(parseFile(last'.path, content))
                   => /\ p \in DOMAIN summaries'
                      /\ summaries'[p].contentHash = hashContent(content)
                      /\ summaries'[p].summary = formatSummary(content)
                      /\ ~isStale(CacheState', disk', last'.path)]_vars

\* an edit under another spelling left the file active, cached and fresh
\* after a switch from another active file
EditedIntoWarmCache ==
    /\ last.op = "edit"
    /\ last.res.tag = "OK"
    /\ last.path = FileADot
    /\ activeFile = FileA
    /\ FileA \in DOMAIN summaries
    /\ ~isStale(CacheState, disk, FileA)
    /\ accessOrder = <<FileB, FileA>>

\* read, edit or write of a supported path, valid on its own, while another
\* file is active that cannot be read or cannot be extracted
SwitchWithFailingPrevious(op, filePath, args) ==
    /\ op \in {"read", "edit", "write"}
    /\ isSupported(filePath)
    /\ op \in {"read", "edit"} => canRead(disk, filePath)
    /\ op = "edit" => occurrenceCount(readFileSync(disk, filePath), args[1]) = 1
    /\ activeFile # None
    /\ activeFile # normalizePath(filePath)
    /\ \/ ~canRead(disk, activeFile)
       \/ ~parsed(parseFile(activeFile, readFileSync(disk, activeFile)))

StatusIsBestEffort ==
    [][last'.op = "status"
       => /\ last'.res.tag = "STATUS"
          /\ (activeFile # None /\ ~canRead(disk, activeFile))
                => last'.res.report.active.kind = "file not found"]_vars

\* C17: tool calls run one after the other: no step of another call runs
\* between a call's summarize-previous step and its setActiveFile step, so
\* the file a call switches away from is the file that call has just
\* summarized, and every file that was made active is summarized when it
\* is switched away from.
OperationsRunSequentially ==
    [][(/\ awaiting # <<>>
        /\ awaiting' = Tail(awaiting)
        /\ activeFile' # activeFile)
       => activeFile = Head(awaiting).previousActive]_vars

\* q was used (setActiveFile, setSummary) less recently than r, given the
\* recency list. A path that holds an entry but is absent from the list was
\* shifted out of it by an eviction after its last use, so it is older than
\* every path in the list.
usedBefore(order, q, r) ==
    /\ q # r
    /\ inOrder(order, r)
    /\ inOrder(order, q) => positionIn(order, q) < positionIn(order, r)

\* C18: whenever a setSummary call removes entries, no entry of a non-active
\* path is kept that was used less recently than a removed one: the removed
\* entries are the least recently used among the non-active entries.
EvictionIsStrictLRU ==
    [][last'.op = "setSummary" =>
          LET p == normalizePath(last'.path)
              order == updateAccessOrder(accessOrder, p)
              before == DOMAIN summaries \cup {p}
          IN \A r \in before \ DOMAIN summaries', k \in DOMAIN summaries' :
                k # activeFile => ~usedBefore(order, k, r)]_vars

\* the place of a line's section in the order purpose, re-exports, constants,
\* type aliases, enums, traits/interfaces, structs/classes, functions
sectionRank(section) ==
    CASE section = "purpose" -> 1
      [] section = "reexports" -> 2
      [] section = "constants" -> 3
      [] section = "typeAliases" -> 4
      [] section = "enums" -> 5
      [] section = "traits" -> 6
      [] section \in {"structs", "fields", "methods"} -> 7
      [] section = "functions" -> 8

\* the place of a section in the order the renderer of a language follows:
\* Rust puts structs before enums and traits, C# enums before delegates
sectionRankOf(language, section) ==
    CASE language = "rust" /\ section \in {"structs", "fields", "methods"} -> 5
      [] language = "rust" /\ section = "enums" -> 6
      [] language = "rust" /\ section = "traits" -> 7
      [] language = "csharp" /\ section = "enums" -> 4
      [] language = "csharp" /\ section = "typeAliases" -> 5
      [] OTHER -> sectionRank(section)

\* within every struct or class the fields come before the methods
fieldsBeforeMethods(text) ==
    \A i \in 1..(Len(text) - 1) : ~(text[i] = "methods" /\ text[i + 1] = "fields")

\* C20 as stated: every renderer emits purpose, re-exports, constants, type
\* aliases, enums, traits/interfaces, structs/classes (fields before methods)
\* and functions in this order; enum and trait text precedes struct text.
RenderersShareSectionOrder ==
    last.op = "render" =>
        LET text == last.res.body IN
        /\ \A i, j \in 1..Len(text) :
              i < j => sectionRank(text[i]) <= sectionRank(text[j])
        /\ fieldsBeforeMethods(text)

\* C20 amended: every renderer emits its sections in a fixed order of its
\* own, with the fields of each struct or class before its methods. For
\* TypeScript, PHP, Python and GDScript it is the stated order (of the
\* sections they render); Rust emits structs before enums and traits, and
\* C# emits enums before delegates (type aliases).
RenderersKeepOwnSectionOrder ==
    last.op = "render" =>
        LET text == last.res.body
            language == last.args[1]
        IN /\ \A i, j \in 1..Len(text) :
                 i < j => sectionRankOf(language, text[i]) <= sectionRankOf(language, text[j])
           /\ fieldsBeforeMethods(text)

\* the Rust renderer has rendered a model with a struct that has a public
\* field and a method, an enum and a trait
RenderedRustStructEnumTrait ==
    /\ last.op = "render"
    /\ last.args[1] = "rust"
    /\ \E i, j, k, l, m \in 1..Len(last.res.body) :
          /\ i < j /\ j < k /\ k < l /\ l < m
          /\ last.res.body[i] = "structs"
          /\ last.res.body[j] = "fields"
          /\ last.res.body[k] = "methods"
          /\ last.res.body[l] = "enums"
          /\ last.res.body[m] = "traits"

\* the syntax tree of the source contains an ERROR node
hasSyntaxError(source) == \E i \in 1..Len(source) : source[i] = "?"

\* C21: for every source whose syntax tree contains an error the extractor
\* returns the failure outcome, so a peek at such a file, when it is not the
\* active file, returns the full content tagged FULL with a parse-error
\* diagnostic and stores no cache entry.
SyntaxErrorAbortsExtraction ==
    [][(/\ last'.op = "peek"
        /\ canRead(disk, last'.path)
        /\ activeFile # normalizePath(last'.path)
        /\ hasSyntaxError(readFileSync(disk, last'.path)))
       => /\ ~parsed(parseFile(last'.path, readFileSync(disk, last'.path)))
          /\ last'.res.tag = "FULL"
          /\ last'.res.body = readFileSync(disk, last'.path)
          /\ last'.res.note = "parse error"
          /\ summaries' = summaries]_vars

\* C22: spellings that normalize to the same absolute path are one file.
\* read, edit or write through a spelling other than the one under which the
\* file is active runs no summarize-on-switch step: once it has returned, read
\* has left the summary map as it was, and edit and write have left the cache
\* as the same call through the active spelling leaves it. isActive,
\* getSummary and forget answer the same for both spellings.
EquivalentSpellingsCollide ==
    [][(/\ last'.op \in {"read", "edit", "write"}
        /\ activeFile # None
        /\ normalizePath(last'.path) = activeFile
        /\ last'.path # activeFile
        /\ ~hung')
       => /\ last'.op = "read" => summaries' = summaries
          /\ last'.op = "edit"
                => CacheState' = editFile(CacheState, disk, activeFile,
                                          last'.args[1], last'.args[2]).st
          /\ last'.op = "write"
                => CacheState' = writeFile(CacheState, disk, activeFile,
                                           last'.args[1]).st
          /\ \A filePath \in Spellings :
                /\ isActive(CacheState', filePath)
                      = isActive(CacheState', normalizePath(filePath))
                /\ getSummary(CacheState', filePath)
                      = getSummary(CacheState', normalizePath(filePath))
                /\ forget(CacheState', filePath)
                      = forget(CacheState', normalizePath(filePath))]_vars

\* C23: in every state reachable by setActiveFile, setSummary,
\* clearActiveFile and forget calls each path occurs at most once in
\* accessOrder; after setActiveFile the path passed is the last element, and
\* after setSummary it is the last element unless the eviction loop of that
\* call popped it, in which case it is not in the list.
AccessOrderHasNoDuplicates ==
    /\ \A i, j \in 1..Len(accessOrder) : i # j => accessOrder[i] # accessOrder[j]
    /\ last.op \in {"setActiveFile", "setSummary"}
          => LET p == normalizePath(last.path) IN
             /\ inOrder(accessOrder, p) => accessOrder[Len(accessOrder)] = p
             /\ last.op = "setActiveFile" => inOrder(accessOrder, p)

\* setActiveFile, under another spelling, of a path that has an entry: the
\* path is the last of the two paths of the list, and both hold entries
ReactivatedTrackedPath ==
    /\ last.op = "setActiveFile"
    /\ last.path = FileADot
    /\ accessOrder = <<FileB, FileA>>
    /\ DOMAIN summaries = {FileA, FileB}
    /\ maxTrackedFiles = 2

\* the method list the summary holds for the type of that name; a type that
\* has no method list in the summary has no methods listed
methodListOf(summary, name) ==
    IF \E k \in 1..Len(summary.structs) : summary.structs[k].name = name
    THEN summary.structs[CHOOSE k \in 1..Len(summary.structs) :
                            summary.structs[k].name = name].methods
    ELSE <<>>

\* the public methods called m of the inherent impl blocks for the type
inherentPublicMethods(nodes, name, m) ==
    {<<i, j>> \in (1..Len(nodes)) \X (1..2) :
        /\ nodes[i].kind = "impl_item"
        /\ ~nodes[i].trait
        /\ stripGenerics(nodes[i].type) = name
        /\ j <= Len(nodes[i].body)
        /\ nodes[i].body[j].name = m
        /\ nodes[i].body[j].isPublic}

\* C24: for every Rust file and every public type declared in it, each public
\* method of an inherent impl block whose target, generic suffix stripped,
\* names the type appears exactly once in the type's method list, wherever
\* the impl block stands; methods of trait impls and non-public methods
\* appear in no method list.
ImplMethodsLinked ==
    last.op = "parseRust" =>
        LET nodes == last.args[1]
            summary == last.res.summary
        IN /\ \A t \in 1..Len(nodes), m \in {"m", "n"} :
                 (nodes[t].kind # "impl_item" /\ nodes[t].isPublic)
                 => Cardinality({k \in 1..Len(methodListOf(summary, nodes[t].name)) :
                                    methodListOf(summary, nodes[t].name)[k].name = m})
                    = Cardinality(inherentPublicMethods(nodes, nodes[t].name, m))
           /\ \A k \in 1..Len(summary.structs) :
                 \A l \in 1..Len(summary.structs[k].methods) :
                    summary.structs[k].methods[l].isPublic

\* C25: every setSummary call terminates, for every maxTrackedFiles >= 0 and
\* in every state reachable by read, peek, edit, write and forget operations
\* and removals or changes of files by other programs: no call stays in the
\* eviction loop.
SetSummaryTerminates == ~hung

\* C26 as stated: with maxTrackedFiles >= 1, immediately after
\* setSummary(p, s, c) returns, getSummary(p) is an entry with summary s and
\* the hash of c.
SetSummaryKeepsStoredEntry ==
    [][(last'.op = "setSummary" /\ maxTrackedFiles >= 1 /\ ~hung')
       => LET cached == getSummary(CacheState', last'.path) IN
          /\ cached # None
          /\ cached.summary = last'.args[1]
          /\ cached.contentHash = hashContent(last'.args[2])]_vars

\* C26 amended: with maxTrackedFiles >= 1, immediately after
\* setSummary(p, s, c) returns, getSummary(p) is an entry with summary s and
\* the hash of c, or p has no entry because the eviction loop of that call
\* removed it; the loop removes it only when p is not the active file, and
\* then it has shifted every path out of accessOrder and the map holds
\* exactly maxTrackedFiles entries, all of other paths.
StoredEntryKeptOrListExhausted ==
    [][(last'.op = "setSummary" /\ maxTrackedFiles >= 1 /\ ~hung')
       => LET p == normalizePath(last'.path)
              cached == getSummary(CacheState', last'.path)
          IN \/ /\ cached # None
                /\ cached.summary = last'.args[1]
                /\ cached.contentHash = hashContent(last'.args[2])
             \/ /\ cached = None
                /\ p # activeFile'
                /\ accessOrder' = <<>>
                /\ Cardinality(DOMAIN summaries') = maxTrackedFiles]_vars

\* setSummary for a path other than the active file has returned with a full
\* cache that holds the entry of the active file and none for the path
StoredEntryEvictedAtOnce ==
    /\ last.op = "setSummary"
    /\ ~hung
    /\ maxTrackedFiles >= 1
    /\ getSummary(CacheState, last.path) = None
    /\ activeFile # None
    /\ activeFile \in DOMAIN summaries
    /\ Cardinality(DOMAIN summaries) = maxTrackedFiles
    /\ accessOrder = <<>>

\* C27: in every state between calls, every path that has a cache entry and
\* is not the active file occurs in accessOrder.
NoOrphanedEntries ==
    ~hung => \A q \in DOMAIN summaries : q # activeFile => inOrder(accessOrder, q)

\* C28: a status report counts every tracked file once: the active file is
\* not a row of the cached-summaries table, Total Context is the size of the
\* active file plus the summary sizes of the cached files other than the
\* active file, and Without Compaction is the size of the active file plus
\* the full sizes of those other files.
StatusCountsOnce ==
    (last.op = "status" /\ last.res.tag = "STATUS") =>
        LET report == last.res.report
            others == DOMAIN summaries \ {activeFile}
            activeSize == IF activeFile # None /\ canRead(disk, activeFile)
                          THEN byteLength(readFileSync(disk, activeFile))
                          ELSE 0
        IN /\ \A row \in report.rows : row.path # activeFile
           /\ report.totals # None
                 => /\ report.totals.totalContext
                          = activeSize + sumOver(summaries, others, "summarySize")
                    /\ report.totals.totalWithoutCompaction
                          = activeSize + sumOver(summaries, others, "fullSize")

\* C29: when read, peek or edit fails because the file cannot be read, or
\* edit fails with the not-found or the ambiguous-match error, or write fails
\* to write the file, the active pointer, the summary map and the recency
\* list are exactly what they were before the call.
FailedOperationLeavesCache ==
    [][(/\ last'.op \in {"read", "peek", "edit", "write"}
        /\ \/ last'.op \in {"read", "peek", "edit"} /\ ~canRead(disk, last'.path)
           \/ /\ last'.op = "edit"
              /\ canRead(disk, last'.path)
              /\ occurrenceCount(readFileSync(disk, last'.path), last'.args[1]) # 1
           \/ last'.op = "write" /\ ~canWrite(disk, last'.path))
       => /\ last'.res.tag = "ERROR"
          /\ UNCHANGED <<activeFile, summaries, accessOrder>>]_vars

\* an edit of another supported file failed with the not-found error while a
\* readable, extractable file is active and holds no entry
EditFailedBeforeSwitch ==
    /\ last.op = "edit"
    /\ last.res.tag = "ERROR"
    /\ last.res.note = "not found"
    /\ normalizePath(last.path) = FileB
    /\ activeFile = FileA
    /\ canRead(disk, FileA)
    /\ parsed(parseFile(FileA, readFileSync(disk, FileA)))
    /\ FileA \notin DOMAIN summaries
    /\ maxTrackedFiles >= 1

====
